---- MODULE Spec2Model ----
(***************************************************************************)
(* Model of scripts/pack.py: the project lister, the recursive source      *)
(* collector, the prompt formatter and the interactive driver main().      *)
(*                                                                         *)
(* Text is a sequence of one-character strings, a path is a sequence of    *)
(* names, and the filesystem is a function from paths (relative to         *)
(* base_path) to nodes.  A directory node keeps its entries in the order   *)
(* the operating system enumerates them.                                   *)
(***************************************************************************)
EXTENDS Integers, Sequences, FiniteSets, TLC

VARIABLES
    fs,            \* the filesystem below base_path: path -> node
    faults,        \* nodes whose access fails: set of <<kind, path>>
    input,         \* the line the operator types (the same in every run)
    pc,            \* the driver's state (spec 4.4)
    cpc,           \* position inside collect_source_files / the final write
    projects,      \* main: projects
    choice,        \* main: choice
    todo,          \* matched files os.walk has still to deliver
    source_files,  \* collect_source_files: source_files (insertion ordered)
    prompt,        \* main: prompt
    open,          \* file handles currently open
    exc,           \* an exception raised inside a with block, still unwinding
    out,           \* lines printed so far in this run
    reads,         \* input lines read so far in this run
    trace,         \* driver states entered so far in this run
    written,       \* paths opened for writing so far in this run
    skipped,       \* directories os.walk could not list and passed over
    hit,           \* failures met in this run
    run,           \* number of the current run
    prev,          \* what the previous run produced
    selected,      \* main: selected_project
    walks,         \* arguments collect_source_files was called with in this run
    fs0,           \* the filesystem when this run started
    outputs        \* paths of the output files written by any run so far

vars == <<fs, faults, input, pc, cpc, projects, choice, todo, source_files,
          prompt, open, exc, out, reads, trace, written, skipped, hit, run, prev,
          selected, walks, fs0, outputs>>

-----------------------------------------------------------------------------
(* Bounds of the model. *)

MaxRuns == 2
MaxFaults == 1

-----------------------------------------------------------------------------
(* Text helpers. *)

Range(s) == {s[i] : i \in 1..Len(s)}

NL == "\n"

Digits == <<"0", "1", "2", "3", "4", "5", "6", "7", "8", "9">>

IsDigit(c) == c \in Range(Digits)

DigitVal(c) == (CHOOSE i \in 1..10 : Digits[i] = c) - 1

Whitespace == {" ", "\t", "\n"}

RECURSIVE LStrip(_)
LStrip(s) ==
    IF s # <<>> /\ Head(s) \in Whitespace THEN LStrip(Tail(s)) ELSE s

RECURSIVE RStrip(_)
RStrip(s) ==
    IF s # <<>> /\ s[Len(s)] \in Whitespace
    THEN RStrip(SubSeq(s, 1, Len(s) - 1))
    ELSE s

RECURSIVE DigitsValue(_, _)
DigitsValue(s, acc) ==
    IF s = <<>> THEN acc
    ELSE IF Head(s) = "_" THEN DigitsValue(Tail(s), acc)
    ELSE DigitsValue(Tail(s), 10 * acc + DigitVal(Head(s)))

\* int(text): surrounding whitespace stripped, an optional sign, then decimal
\* digits, single underscores allowed between digits.  ok = FALSE is ValueError.
ParseInt(text) ==
    LET s == RStrip(LStrip(text))
        signed == s # <<>> /\ Head(s) \in {"+", "-"}
        body == IF signed THEN Tail(s) ELSE s
        wellFormed ==
            /\ body # <<>>
            /\ \A i \in 1..Len(body) : IsDigit(body[i]) \/ body[i] = "_"
            /\ IsDigit(body[1])
            /\ IsDigit(body[Len(body)])
            /\ \A i \in 1..(Len(body) - 1) : ~(body[i] = "_" /\ body[i + 1] = "_")
    IN IF ~wellFormed THEN [ok |-> FALSE, val |-> 0]
       ELSE [ok |-> TRUE,
             val |-> IF signed /\ Head(s) = "-"
                     THEN 0 - DigitsValue(body, 0)
                     ELSE DigitsValue(body, 0)]

\* str.endswith(suffix)
EndsWith(s, suffix) ==
    /\ Len(s) >= Len(suffix)
    /\ SubSeq(s, Len(s) - Len(suffix) + 1, Len(s)) = suffix

\* sep.join(parts)
RECURSIVE JoinStr(_, _)
JoinStr(sep, parts) ==
    IF parts = <<>> THEN <<>>
    ELSE IF Len(parts) = 1 THEN parts[1]
    ELSE parts[1] \o sep \o JoinStr(sep, Tail(parts))

\* os.path.join of path segments into one path string
JoinPath(segments) == JoinStr(<<"/">>, segments)

-----------------------------------------------------------------------------
(* Literals of the program. *)

\* Seeded fault: the plain-text suffix is added to the recognized ones.
ExtensionsWithTxt ==
    << <<".", "r", "s">>,
       <<".", "g", "l", "s", "l">>,
       <<".", "w", "g", "s", "l">>,
       <<".", "h">>,
       <<".", "c", "p", "p">>,
       <<".", "p", "y">>,
       <<".", "j", "s">>,
       <<".", "t", "s">>,
       <<".", "t", "x", "t">> >>

Extensions ==
    << <<".", "r", "s">>,
       <<".", "g", "l", "s", "l">>,
       <<".", "w", "g", "s", "l">>,
       <<".", "h">>,
       <<".", "c", "p", "p">>,
       <<".", "p", "y">>,
       <<".", "j", "s">>,
       <<".", "t", "s">> >>

TripleQuote == <<"\"", "\"", "\"">>

\* The backtick (U+0060) cannot be written inside a TLA+ string literal; this
\* atom stands for that one character.
Backtick == "BACKTICK"

Fence == <<Backtick, Backtick, Backtick>>

FileHeader == <<"#", "#", "#", " ", "F", "i", "l", "e", ":", " ">>

ScriptsDir == <<"s", "c", "r", "i", "p", "t", "s">>

PromptSuffix == <<"_", "p", "r", "o", "m", "p", "t", ".", "t", "x", "t">>

MsgAvailable == "Available projects:"
MsgInvalidChoice == "Invalid choice."
MsgInvalidInput == "Invalid input. Please enter a number."
MsgPacking == "Packing source files from project: "
MsgWritten == "Prompt written to "
MsgEnter == "Enter the number of the project you want to pack: "

Line(text, idx, arg) == [text |-> text, idx |-> idx, arg |-> arg]

-----------------------------------------------------------------------------
(* The filesystem. *)

Dir(entries) == [kind |-> "dir", entries |-> entries, content |-> <<>>]

File(content) == [kind |-> "file", entries |-> <<>>, content |-> content]

Parent(path) == SubSeq(path, 1, Len(path) - 1)

Name(path) == path[Len(path)]

\* os.path.isdir: FALSE also for a path that does not exist
isdir(path) == path \in DOMAIN fs /\ fs[path].kind = "dir"

\* Seeded fault: the file is opened in append mode ('a') and keeps its content.
CreateOrAppend(f, path) ==
    IF path \in DOMAIN f
    THEN f
    ELSE (path :> File(<<>>)) @@
         [f EXCEPT ![Parent(path)].entries = Append(@, Name(path))]

\* The effect of open(path, 'w') on a filesystem f: the file is created in its
\* parent (enumerated last) or, when it exists, truncated.
CreateOrTruncate(f, path) ==
    IF path \in DOMAIN f
    THEN [f EXCEPT ![path] = File(<<>>)]
    ELSE (path :> File(<<>>)) @@
         [f EXCEPT ![Parent(path)].entries = Append(@, Name(path))]

\* Names used by the sample trees.
N_0demo == <<"0", "_", "d", "e", "m", "o">>
N_1demo == <<"1", "_", "d", "e", "m", "o">>
N_2e == <<"2", "_", "e">>
N_notes == <<"n", "o", "t", "e", "s">>
N_readme == <<"r", "e", "a", "d", "m", "e", ".", "t", "x", "t">>
N_3rs == <<"3", ".", "r", "s">>
N_mrs == <<"m", ".", "r", "s">>
N_lRS == <<"l", ".", "R", "S">>
N_xtsx == <<"x", ".", "t", "s", "x">>
N_sh == <<"s", "h">>
N_ntxt == <<"n", ".", "t", "x", "t">>
N_1d == <<"1", "d">>
N_awgsl == <<"a", ".", "w", "g", "s", "l">>
N_xpy == <<"x", ".", "p", "y">>
N_bcpp == <<"b", ".", "c", "p", "p">>
N_doth == <<".", "h">>
N_yts == <<"y", ".", "t", "s">>
N_2n == <<"2", "n">>
N_npy == <<"n", ".", "p", "y">>
N_packpy == <<"p", "a", "c", "k", ".", "p", "y">>

\* base_path holding three projects (the third with no source file), a
\* directory without a leading digit, two plain files and scripts/.
FSDemo(baseOrder) ==
    (<<>> :> Dir(baseOrder)) @@
    (<<N_0demo>> :> Dir(<<N_mrs, N_sh, N_lRS, N_xtsx>>)) @@
    (<<N_0demo, N_mrs>> :> File(<<"f", "n">>)) @@
    (<<N_0demo, N_lRS>> :> File(<<"R">>)) @@
    (<<N_0demo, N_xtsx>> :> File(<<"t">>)) @@
    (<<N_0demo, N_sh>> :> Dir(<<N_ntxt, N_1d, N_awgsl, N_mrs>>)) @@
    (<<N_0demo, N_sh, N_ntxt>> :> File(<<"n">>)) @@
    (<<N_0demo, N_sh, N_awgsl>> :> File(<<Backtick, Backtick, Backtick, NL>>)) @@
    (<<N_0demo, N_sh, N_mrs>> :> File(<<"x">>)) @@
    (<<N_0demo, N_sh, N_1d>> :> Dir(<<N_xpy>>)) @@
    (<<N_0demo, N_sh, N_1d, N_xpy>> :> File(<<>>)) @@
    (<<N_1demo>> :> Dir(<<N_bcpp, N_doth, N_yts>>)) @@
    (<<N_1demo, N_bcpp>> :> File(<<"c", NL>>)) @@
    (<<N_1demo, N_doth>> :> File(<<"h">>)) @@
    (<<N_1demo, N_yts>> :> File(<<"y">>)) @@
    (<<N_2e>> :> Dir(<<N_ntxt>>)) @@
    (<<N_2e, N_ntxt>> :> File(<<"e">>)) @@
    (<<N_notes>> :> Dir(<<N_2n>>)) @@
    (<<N_notes, N_2n>> :> Dir(<<N_npy>>)) @@
    (<<N_notes, N_2n, N_npy>> :> File(<<"p">>)) @@
    (<<N_readme>> :> File(<<"r">>)) @@
    (<<N_3rs>> :> File(<<"3">>)) @@
    (<<ScriptsDir>> :> Dir(<<N_packpy>>)) @@
    (<<ScriptsDir, N_packpy>> :> File(<<"m">>))

\* base_path with no qualifying subdirectory.
FSNoProjects ==
    (<<>> :> Dir(<<N_notes, N_readme, ScriptsDir, N_3rs>>)) @@
    (<<N_notes>> :> Dir(<<N_2n>>)) @@
    (<<N_notes, N_2n>> :> Dir(<<N_npy>>)) @@
    (<<N_notes, N_2n, N_npy>> :> File(<<"p">>)) @@
    (<<N_readme>> :> File(<<"r">>)) @@
    (<<N_3rs>> :> File(<<"3">>)) @@
    (<<ScriptsDir>> :> Dir(<<N_packpy>>)) @@
    (<<ScriptsDir, N_packpy>> :> File(<<"m">>))

BaseOrders ==
    { <<N_0demo, N_readme, N_notes, N_1demo, ScriptsDir, N_3rs, N_2e>>,
      <<ScriptsDir, N_1demo, N_3rs, N_2e, N_0demo, N_notes, N_readme>> }

Trees == {FSDemo(o) : o \in BaseOrders} \cup {FSNoProjects}

\* An output file left by an earlier run of the tool.
WithOldOutput(f) ==
    LET path == <<ScriptsDir, N_0demo \o PromptSuffix>>
    IN [CreateOrTruncate(f, path) EXCEPT ![path] = File(<<"o", "l", "d">>)]

\* Accesses that can fail: listing a directory, opening a file, decoding a
\* file's bytes, creating a file in a directory.
FaultCandidates ==
    { <<"list", <<>>>>,
      <<"list", <<N_0demo>>>>,
      <<"list", <<N_0demo, N_sh>>>>,
      <<"open", <<N_0demo, N_mrs>>>>,
      <<"decode", <<N_0demo, N_sh, N_awgsl>>>>,
      <<"decode", <<N_0demo, N_sh, N_ntxt>>>>,
      <<"decode", <<N_1demo, N_bcpp>>>>,
      <<"write", <<ScriptsDir>>>> }

Inputs ==
    { <<"0">>, <<"1">>, <<"2">>, <<"3">>, <<"-", "1">>, <<" ", "1">>,
      <<"a", "b", "c">>, <<"1", "a">>, <<>> }

-----------------------------------------------------------------------------
(* The functions of pack.py. *)

\* os.listdir(path), for a directory that can be listed
listdir(path) == fs[path].entries

HasDigitPrefix(d) == d # <<>> /\ IsDigit(d[1])

\* Seeded fault: the os.path.isdir test is left out.
get_project_directories_any(base_path) ==
    SelectSeq(listdir(base_path), LAMBDA d : HasDigitPrefix(d))

get_project_directories(base_path) ==
    SelectSeq(listdir(base_path),
              LAMBDA d : isdir(base_path \o <<d>>) /\ HasDigitPrefix(d))

Contains(s, t) ==
    \E i \in 1..(Len(s) - Len(t) + 1) : SubSeq(s, i, i + Len(t) - 1) = t

\* Seeded fault: the suffix is looked for anywhere in the name.
has_source_extension_anywhere(file) ==
    \E i \in 1..Len(Extensions) : Contains(file, Extensions[i])

\* file.endswith((".rs", ".glsl", ...))
has_source_extension(file) ==
    \E i \in 1..Len(Extensions) : EndsWith(file, Extensions[i])

\* os.walk(top), top-down and with the default onerror=None: a directory that
\* cannot be listed yields nothing and the walk goes on.  The triples are
\* computed at once; the generator's laziness is not observable while the
\* tree does not change under it.
RECURSIVE Walk(_)
RECURSIVE WalkEach(_, _)
Walk(top) ==
    IF ~isdir(top) \/ <<"list", top>> \in faults THEN <<>>
    ELSE LET entries == listdir(top)
             dirs == SelectSeq(entries, LAMBDA n : isdir(top \o <<n>>))
             nondirs == SelectSeq(entries, LAMBDA n : ~isdir(top \o <<n>>))
         IN <<[root |-> top, dirs |-> dirs, files |-> nondirs]>>
            \o WalkEach(top, dirs)

WalkEach(top, dirs) ==
    IF dirs = <<>> THEN <<>>
    ELSE Walk(top \o <<Head(dirs)>>) \o WalkEach(top, Tail(dirs))

\* The directories os.walk(top) passes over because listing them failed.
RECURSIVE WalkSkipped(_)
WalkSkipped(top) ==
    IF ~isdir(top) THEN {}
    ELSE IF <<"list", top>> \in faults THEN {top}
    ELSE UNION {WalkSkipped(top \o <<n>>) : n \in Range(listdir(top))}

\* The files the two nested loops of collect_source_files reach, in order.
RECURSIVE FilesOf(_, _)
FilesOf(root, files) ==
    IF files = <<>> THEN <<>>
    ELSE (IF has_source_extension(Head(files))
          THEN <<[root |-> root, file |-> Head(files)]>>
          ELSE <<>>)
         \o FilesOf(root, Tail(files))

RECURSIVE MatchedIn(_)
MatchedIn(triples) ==
    IF triples = <<>> THEN <<>>
    ELSE FilesOf(Head(triples).root, Head(triples).files) \o MatchedIn(Tail(triples))

MatchedFiles(project_path) == MatchedIn(Walk(project_path))

\* os.path.relpath(os.path.join(root, file), project_path)
relative_path(root, file, project_path) ==
    LET full == root \o <<file>>
    IN JoinPath(SubSeq(full, Len(project_path) + 1, Len(full)))

\* source_files[key] = value on an insertion-ordered dict
DictSet(d, key, value) ==
    IF \E i \in 1..Len(d) : d[i].path = key
    THEN [i \in 1..Len(d) |->
            IF d[i].path = key THEN [path |-> key, content |-> value] ELSE d[i]]
    ELSE Append(d, [path |-> key, content |-> value])

\* Seeded fault: trailing whitespace of the content is stripped.
PromptEntryStripped(file_path, content) ==
    Fence \o <<NL>> \o FileHeader \o file_path \o <<NL, NL>> \o RStrip(content)
    \o <<NL>> \o Fence \o <<NL>>

\* f"```\n### File: {file_path}\n\n{content}\n```\n"
PromptEntry(file_path, content) ==
    Fence \o <<NL>> \o FileHeader \o file_path \o <<NL, NL>> \o content
    \o <<NL>> \o Fence \o <<NL>>

RECURSIVE AppendEntries(_, _)
AppendEntries(parts, items) ==
    IF items = <<>> THEN parts
    ELSE AppendEntries(Append(parts, PromptEntry(Head(items).path, Head(items).content)),
                       Tail(items))

create_prompt(files) ==
    JoinStr(<<NL>>, Append(AppendEntries(<<TripleQuote>>, files), TripleQuote))

\* sequence[index] with Python's indexing: a negative index counts from the end
IndexOK(sequence, index) == 0 - Len(sequence) <= index /\ index < Len(sequence)

PyIndex(sequence, index) ==
    IF index >= 0 THEN sequence[index + 1] ELSE sequence[Len(sequence) + index + 1]

\* Seeded fault: the upper bound of the range test is off by one.
InvalidChoiceOffByOne(index, count) == index < 0 \/ index > count

\* choice < 0 or choice >= len(projects)
InvalidChoice(index, count) == index < 0 \/ index >= count

\* os.path.join(base_path, selected_project)
project_path(project) == <<project>>

\* Seeded fault: the 'scripts' segment is left out of the output path.
output_file_in_base(project) == <<project \o PromptSuffix>>

\* os.path.join(base_path, 'scripts', f"{selected_project}_prompt.txt")
output_file(project) == <<ScriptsDir, project \o PromptSuffix>>

\* Seeded fault: the file is opened without a with block and never closed.
ReleaseNothing(handles, path) == handles

\* Leaving a with block closes its file, whether or not the body raised.
Release(handles, path) == handles \ {path}

-----------------------------------------------------------------------------
(* The run of main(), one action per step. *)

Terminal == {"Invalid", "Done", "Failed"}

NoPrev ==
    [run |-> 0, pc |-> "none", projects |-> <<>>, source_files |-> <<>>,
     prompt |-> <<>>, fs |-> <<>>]

OldOutputs(f) == {p \in DOMAIN f : p = <<ScriptsDir, N_0demo \o PromptSuffix>>}

Init ==
    /\ fs \in Trees \cup {WithOldOutput(t) : t \in Trees}
    /\ faults \in {F \in SUBSET FaultCandidates :
                     /\ Cardinality(F) <= MaxFaults
                     /\ \A f \in F : f[2] \in DOMAIN fs}
    /\ input \in Inputs
    /\ pc = "Start"
    /\ cpc = "idle"
    /\ projects = <<>>
    /\ choice = 0
    /\ todo = <<>>
    /\ source_files = <<>>
    /\ prompt = <<>>
    /\ open = {}
    /\ exc = FALSE
    /\ out = <<>>
    /\ reads = 0
    /\ trace = <<"Start">>
    /\ written = <<>>
    /\ skipped = {}
    /\ hit = {}
    /\ run = 1
    /\ prev = NoPrev
    /\ selected = <<>>
    /\ walks = <<>>
    /\ fs0 = fs
    /\ outputs = OldOutputs(fs)

Enter(state) ==
    /\ pc' = state
    /\ trace' = Append(trace, state)

\* An exception nothing catches: the traceback is printed and the process ends.
Raise(kind) ==
    /\ Enter("Failed")
    /\ hit' = hit \cup {kind}

\* base_path = os.path.abspath(os.path.join(os.path.dirname(__file__), '..'))
ResolveBase ==
    /\ pc = "Start"
    /\ Enter("ListingProjects")
    /\ UNCHANGED <<fs, faults, input, cpc, projects, choice, todo, source_files,
                   prompt, open, exc, out, reads, written, skipped, hit, run, prev,
                   selected, walks, fs0, outputs>>

\* projects = get_project_directories(base_path), then the numbered list
ListProjects ==
    /\ pc = "ListingProjects"
    /\ IF <<"list", <<>>>> \in faults
       THEN /\ Raise("list")
            /\ UNCHANGED <<projects, out>>
       ELSE LET ps == get_project_directories(<<>>)
            IN /\ projects' = ps
               /\ out' = out \o <<Line(MsgAvailable, -1, <<>>)>>
                         \o [i \in 1..Len(ps) |-> Line("item", i - 1, ps[i])]
               /\ Enter("AwaitingSelection")
               /\ hit' = hit
    /\ UNCHANGED <<fs, faults, input, cpc, choice, todo, source_files, prompt,
                   open, exc, reads, written, skipped, run, prev,
                   selected, walks, fs0, outputs>>

\* Seeded fault: after a line that is no integer the prompt is shown again.
ReadSelectionAgain ==
    /\ pc = "AwaitingSelection"
    /\ reads < 3
    /\ reads' = reads + 1
    /\ LET r == ParseInt(input)
           asked == Append(out, Line(MsgEnter, -1, <<>>))
       IN IF ~r.ok
          THEN /\ out' = Append(asked, Line(MsgInvalidInput, -1, <<>>))
               /\ UNCHANGED <<pc, trace, choice, cpc>>
          ELSE /\ choice' = r.val
               /\ IF InvalidChoice(r.val, Len(projects))
                  THEN /\ out' = Append(asked, Line(MsgInvalidChoice, -1, <<>>))
                       /\ Enter("Invalid")
                       /\ cpc' = cpc
                  ELSE /\ out' = asked
                       /\ Enter("Collecting")
                       /\ cpc' = "select"
    /\ UNCHANGED <<fs, faults, input, projects, todo, source_files, prompt, open,
                   exc, written, skipped, hit, run, prev,
                   selected, walks, fs0, outputs>>

\* choice = int(input(...)), the range test and the two handled errors
ReadSelection ==
    /\ pc = "AwaitingSelection"
    /\ reads' = reads + 1
    /\ LET r == ParseInt(input)
           asked == Append(out, Line(MsgEnter, -1, <<>>))
       IN IF ~r.ok
          THEN /\ out' = Append(asked, Line(MsgInvalidInput, -1, <<>>))
               /\ Enter("Invalid")
               /\ UNCHANGED <<choice, cpc>>
          ELSE /\ choice' = r.val
               /\ IF InvalidChoice(r.val, Len(projects))
                  THEN /\ out' = Append(asked, Line(MsgInvalidChoice, -1, <<>>))
                       /\ Enter("Invalid")
                       /\ cpc' = cpc
                  ELSE /\ out' = asked
                       /\ Enter("Collecting")
                       /\ cpc' = "select"
    /\ UNCHANGED <<fs, faults, input, projects, todo, source_files, prompt, open,
                   exc, written, skipped, hit, run, prev,
                   selected, walks, fs0, outputs>>

\* selected_project = projects[choice], project_path, the packing message
SelectProject ==
    /\ pc = "Collecting"
    /\ cpc = "select"
    /\ IF ~IndexOK(projects, choice)
       THEN /\ Raise("index")
            /\ UNCHANGED <<selected, out, cpc>>
       ELSE /\ selected' = PyIndex(projects, choice)
            /\ out' = Append(out, Line(MsgPacking, -1, PyIndex(projects, choice)))
            /\ cpc' = "walk"
            /\ UNCHANGED <<pc, trace, hit>>
    /\ UNCHANGED <<fs, faults, input, projects, choice, todo, source_files,
                   prompt, open, exc, reads, written, skipped, run, prev,
                   walks, fs0, outputs>>

\* collect_source_files(project_path): source_files = {} and the walk
CollectBegin ==
    /\ pc = "Collecting"
    /\ cpc = "walk"
    /\ walks' = Append(walks, project_path(selected))
    /\ source_files' = <<>>
    /\ todo' = MatchedFiles(project_path(selected))
    /\ skipped' = WalkSkipped(project_path(selected))
    /\ hit' = IF WalkSkipped(project_path(selected)) # {}
              THEN hit \cup {"walk"} ELSE hit
    /\ cpc' = "next"
    /\ UNCHANGED <<fs, faults, input, pc, projects, choice, prompt, open, exc,
                   out, reads, trace, written, run, prev, selected, fs0, outputs>>

Current == Head(todo).root \o <<Head(todo).file>>

\* open(os.path.join(root, file), 'r', encoding='utf-8')
OpenSource ==
    /\ pc = "Collecting"
    /\ cpc = "next"
    /\ todo # <<>>
    /\ IF <<"open", Current>> \in faults
       THEN /\ Raise("open")
            /\ UNCHANGED <<open, cpc>>
       ELSE /\ open' = open \cup {Current}
            /\ cpc' = "read"
            /\ UNCHANGED <<pc, trace, hit>>
    /\ UNCHANGED <<fs, faults, input, projects, choice, todo, source_files,
                   prompt, exc, out, reads, written, skipped, run, prev,
                   selected, walks, fs0, outputs>>

\* source_files[relative_path] = f.read()
ReadSource ==
    /\ pc = "Collecting"
    /\ cpc = "read"
    /\ IF <<"decode", Current>> \in faults
       THEN /\ exc' = TRUE
            /\ hit' = hit \cup {"read"}
            /\ UNCHANGED source_files
       ELSE /\ source_files' =
                  DictSet(source_files,
                          relative_path(Head(todo).root, Head(todo).file,
                                        project_path(selected)),
                          fs[Current].content)
            /\ UNCHANGED <<exc, hit>>
    /\ cpc' = "close"
    /\ UNCHANGED <<fs, faults, input, pc, projects, choice, todo, prompt, open,
                   out, reads, trace, written, skipped, run, prev,
                   selected, walks, fs0, outputs>>

\* the end of the with block around the read
CloseSource ==
    /\ pc = "Collecting"
    /\ cpc = "close"
    /\ open' = Release(open, Current)
    /\ IF exc
       THEN /\ Enter("Failed")
            /\ UNCHANGED <<todo, cpc>>
       ELSE /\ todo' = Tail(todo)
            /\ cpc' = "next"
            /\ UNCHANGED <<pc, trace>>
    /\ UNCHANGED <<fs, faults, input, projects, choice, source_files, prompt,
                   exc, out, reads, written, skipped, hit, run, prev,
                   selected, walks, fs0, outputs>>

\* return source_files
CollectReturn ==
    /\ pc = "Collecting"
    /\ cpc = "next"
    /\ todo = <<>>
    /\ Enter("Formatting")
    /\ cpc' = "idle"
    /\ UNCHANGED <<fs, faults, input, projects, choice, todo, source_files,
                   prompt, open, exc, out, reads, written, skipped, hit, run, prev,
                   selected, walks, fs0, outputs>>

\* prompt = create_prompt(source_files)
Format ==
    /\ pc = "Formatting"
    /\ prompt' = create_prompt(source_files)
    /\ Enter("Writing")
    /\ cpc' = "open"
    /\ UNCHANGED <<fs, faults, input, projects, choice, todo, source_files,
                   open, exc, out, reads, written, skipped, hit, run, prev,
                   selected, walks, fs0, outputs>>

\* open(output_file, 'w', encoding='utf-8')
OpenOutput ==
    /\ pc = "Writing"
    /\ cpc = "open"
    /\ LET path == output_file(selected)
       IN IF \/ ~isdir(Parent(path))
             \/ <<"write", Parent(path)>> \in faults
             \/ isdir(path)
          THEN /\ Raise("write")
               /\ UNCHANGED <<fs, open, written, cpc, outputs>>
          ELSE /\ fs' = CreateOrTruncate(fs, path)
               /\ open' = open \cup {path}
               /\ written' = Append(written, path)
               /\ outputs' = outputs \cup {path}
               /\ cpc' = "write"
               /\ UNCHANGED <<pc, trace, hit>>
    /\ UNCHANGED <<faults, input, projects, choice, todo, source_files, prompt,
                   exc, out, reads, skipped, run, prev, selected, walks, fs0>>

\* f.write(prompt)
WriteOutput ==
    /\ pc = "Writing"
    /\ cpc = "write"
    /\ fs' = [fs EXCEPT ![output_file(selected)].content = @ \o prompt]
    /\ cpc' = "close"
    /\ UNCHANGED <<faults, input, pc, projects, choice, todo, source_files,
                   prompt, open, exc, out, reads, trace, written, skipped, hit,
                   run, prev, selected, walks, fs0, outputs>>

\* the end of the with block around the write, then the completion message
CloseOutput ==
    /\ pc = "Writing"
    /\ cpc = "close"
    /\ open' = Release(open, output_file(selected))
    /\ out' = Append(out, Line(MsgWritten, -1, JoinPath(output_file(selected))))
    /\ Enter("Done")
    /\ cpc' = "idle"
    /\ UNCHANGED <<fs, faults, input, projects, choice, todo, source_files,
                   prompt, exc, reads, written, skipped, hit, run, prev,
                   selected, walks, fs0, outputs>>

\* The operator starts the tool again and types the same line.  The process
\* of the run before has ended, and the handles it held are gone with it.
Restart ==
    /\ pc \in Terminal
    /\ run < MaxRuns
    /\ prev' = [run |-> run, pc |-> pc, projects |-> projects,
                source_files |-> source_files, prompt |-> prompt, fs |-> fs]
    /\ run' = run + 1
    /\ pc' = "Start"
    /\ cpc' = "idle"
    /\ projects' = <<>>
    /\ choice' = 0
    /\ todo' = <<>>
    /\ source_files' = <<>>
    /\ prompt' = <<>>
    /\ open' = {}
    /\ exc' = FALSE
    /\ out' = <<>>
    /\ reads' = 0
    /\ trace' = <<"Start">>
    /\ written' = <<>>
    /\ skipped' = {}
    /\ hit' = {}
    /\ selected' = <<>>
    /\ walks' = <<>>
    /\ fs0' = fs
    /\ UNCHANGED <<fs, faults, input, outputs>>

Step ==
    \/ ResolveBase
    \/ ListProjects
    \/ ReadSelection
    \/ SelectProject
    \/ CollectBegin
    \/ OpenSource
    \/ ReadSource
    \/ CloseSource
    \/ CollectReturn
    \/ Format
    \/ OpenOutput
    \/ WriteOutput
    \/ CloseOutput

Next == Step \/ Restart

Spec == Init /\ [][Next]_vars

\* One thread runs main() from its first statement to its return or to the
\* uncaught exception, and the operator does type a line: a step that can be
\* taken is taken.
FairSpec == Spec /\ WF_vars(Step)

-----------------------------------------------------------------------------
(* Properties. *)

IsPrefix(a, b) == Len(a) <= Len(b) /\ SubSeq(b, 1, Len(a)) = a

HasLine(text) == \E i \in 1..Len(out) : out[i].text = text

LinesWith(text) == {i \in 1..Len(out) : out[i].text = text}

Parsed == ParseInt(input)

\* The line has been read and is an integer inside [0, count).
ValidSelection ==
    /\ reads = 1
    /\ Parsed.ok
    /\ 0 <= Parsed.val
    /\ Parsed.val < Len(projects)

\* The line has been read and is an integer outside [0, count).
OutOfRangeSelection ==
    /\ reads = 1
    /\ Parsed.ok
    /\ (Parsed.val < 0 \/ Parsed.val >= Len(projects))

\* The line has been read and is no integer.
NotAnInteger == reads = 1 /\ ~Parsed.ok

DriverOrder ==
    <<"Start", "ListingProjects", "AwaitingSelection", "Collecting",
      "Formatting", "Writing", "Done">>

\* Nothing below base_path differs from what the run found, except `path`
\* and the entry list of the directory holding it.
OnlyTouched(path) ==
    /\ DOMAIN fs \subseteq DOMAIN fs0 \cup {path}
    /\ \A p \in DOMAIN fs0 :
          /\ p \in DOMAIN fs
          /\ p \notin {path, Parent(path)} => fs[p] = fs0[p]

\* What holds in every state of a run after a selection i inside [0, count):
\* the order of the driver's states, the Collector's argument, the one file
\* opened for writing and what it holds at Done.
\* C1 (state part): after a selection i inside [0, count) the run enters Collecting,
\* Formatting, Writing and Done in that order and each once (a run that an
\* uncaught error ends stops inside that order and is never Invalid); the
\* Collector is called once, on base_path/projects[i], the entry listed with
\* index i; the only file opened for writing is
\* base_path/scripts/<projects[i]>_prompt.txt; at Done that file holds exactly
\* create_prompt of the collected mapping, whatever it held before, and nothing
\* else has changed; the completion message is printed only at Done, after the
\* write; and the run is never stuck before it has ended.
C1_AfterValidSelection ==
    ValidSelection =>
        LET project == projects[Parsed.val + 1]
            target == <<ScriptsDir, project \o PromptSuffix>>
        IN /\ \/ IsPrefix(trace, DriverOrder)
              \/ /\ pc = "Failed"
                 /\ hit # {}
                 /\ trace[Len(trace)] = "Failed"
                 /\ IsPrefix(SubSeq(trace, 1, Len(trace) - 1), DriverOrder)
           /\ choice = Parsed.val
           /\ Line("item", Parsed.val, project) \in Range(out)
           /\ IsPrefix(walks, << <<project>> >>)
           /\ "Formatting" \in Range(trace) => walks = << <<project>> >>
           /\ IsPrefix(written, <<target>>)
           /\ OnlyTouched(target)
           /\ pc = "Done" =>
                 /\ written = <<target>>
                 /\ fs[target] = File(create_prompt(source_files))
                 /\ open = {}
                 /\ out[Len(out)] = Line(MsgWritten, -1, JoinPath(target))
           /\ HasLine(MsgWritten) => pc = "Done"
           /\ pc \notin Terminal => ENABLED Step
           /\ (pc \in Terminal /\ hit = {}) => pc = "Done"

\* C1: after a selection i inside [0, count) the run goes through Collecting,
\* Formatting, Writing and Done in that order, each once, unless an uncaught
\* error ends it on the way; the Collector is called on base_path/projects[i];
\* the one file written is base_path/scripts/<projects[i]>_prompt.txt, which at
\* Done holds exactly the Formatter's output for the Collector's result in
\* place of whatever it held; the completion message follows the write.
C1_ValidSelectionRunsPipeline ==
    /\ []C1_AfterValidSelection
    /\ ValidSelection ~> (pc = "Done" \/ pc = "Failed")

\* C1 witness: a finished run that replaced an existing output file by the
\* prompt of a non-empty mapping.
C1_Witness ==
    /\ ValidSelection
    /\ pc = "Done"
    /\ source_files # <<>>
    /\ output_file(selected) \in DOMAIN fs0
    /\ fs0[output_file(selected)].content # prompt
    /\ fs[output_file(selected)].content = prompt

\* C2: for every project count, also 0, an integer outside [0, count) ends the
\* run in Invalid right after the prompt: the last line printed is the
\* invalid-choice message, the Collector and the Formatter were never called,
\* no file was opened for writing, the filesystem is as the run found it and
\* no further step follows.  With an empty list the header is still printed
\* and the line still read, and every integer is then invalid.
C2_OutOfRangeIsInvalid ==
    /\ OutOfRangeSelection =>
          /\ pc = "Invalid"
          /\ trace = <<"Start", "ListingProjects", "AwaitingSelection", "Invalid">>
          /\ out[Len(out)] = Line(MsgInvalidChoice, -1, <<>>)
          /\ walks = <<>>
          /\ source_files = <<>>
          /\ prompt = <<>>
          /\ written = <<>>
          /\ fs = fs0
          /\ ~ENABLED Step
    /\ pc = "AwaitingSelection" =>
          /\ out[1] = Line(MsgAvailable, -1, <<>>)
          /\ Len(out) = 1 + Len(projects)
          /\ ENABLED ReadSelection
    /\ (reads = 1 /\ projects = <<>> /\ Parsed.ok) => pc = "Invalid"

\* C2 witness: no project at all, the operator enters 0.
C2_Witness ==
    /\ OutOfRangeSelection
    /\ projects = <<>>
    /\ Parsed.val = 0
    /\ pc = "Invalid"
    /\ out[1] = Line(MsgAvailable, -1, <<>>)

\* C3: a line that is no integer ends the run in Invalid right after the
\* prompt: the last line printed is the invalid-input message, the Collector
\* and the Formatter were never called, no file was opened for writing, the
\* filesystem is as the run found it and no further step follows.  A run reads
\* at most one line, asks once, and has read exactly one line once it is past
\* the prompt.
C3_NonIntegerIsInvalid ==
    /\ NotAnInteger =>
          /\ pc = "Invalid"
          /\ trace = <<"Start", "ListingProjects", "AwaitingSelection", "Invalid">>
          /\ out[Len(out)] = Line(MsgInvalidInput, -1, <<>>)
          /\ walks = <<>>
          /\ source_files = <<>>
          /\ prompt = <<>>
          /\ written = <<>>
          /\ fs = fs0
          /\ ~ENABLED Step
    /\ reads <= 1
    /\ Cardinality(LinesWith(MsgEnter)) = reads
    /\ pc \in {"Invalid", "Collecting", "Formatting", "Writing", "Done"} => reads = 1

\* C3 witness: the operator enters abc.
C3_Witness ==
    /\ NotAnInteger
    /\ input = <<"a", "b", "c">>
    /\ pc = "Invalid"

\* Position of a name in a sequence of distinct names.
IndexOf(sequence, name) == CHOOSE i \in 1..Len(sequence) : sequence[i] = name

\* Every name that occurs anywhere below base_path.
AllNames == {Name(p) : p \in DOMAIN fs \ {<<>>}}

\* C4: once the list is there, a name is in it if and only if it is an
\* immediate child of base_path that is a directory and starts with a decimal
\* digit; so no plain file, no directory without a leading digit and no
\* directory that only occurs deeper is listed; no name is listed twice; and
\* the list keeps the order in which base_path enumerates its entries.
C4_ListerExact ==
    "AwaitingSelection" \in Range(trace) =>
        LET children == fs[<<>>].entries
        IN /\ \A n \in AllNames :
                 n \in Range(projects) <=>
                    /\ n \in Range(children)
                    /\ fs[<<n>>].kind = "dir"
                    /\ n[1] \in {"0", "1", "2", "3", "4", "5", "6", "7", "8", "9"}
           /\ Range(projects) \subseteq AllNames
           /\ \A i, j \in 1..Len(projects) : i # j => projects[i] # projects[j]
           /\ \A i, j \in 1..Len(projects) :
                 i < j => IndexOf(children, projects[i]) < IndexOf(children, projects[j])
           /\ \A p \in DOMAIN fs :
                 (Len(p) >= 2 /\ Name(p) \notin Range(children))
                    => Name(p) \notin Range(projects)

\* C4 witness: the list of a base_path that holds, besides three projects, a
\* directory without a leading digit, a plain file with a leading digit and
\* digit-led directories deeper down, enumerated with 1_demo first.
C4_Witness ==
    /\ pc = "AwaitingSelection"
    /\ projects = <<N_1demo, N_2e, N_0demo>>
    /\ N_3rs \in Range(fs[<<>>].entries)
    /\ N_notes \in Range(fs[<<>>].entries)
    /\ <<N_notes, N_2n>> \in DOMAIN fs

\* The suffixes the Collector is to recognize.
RecognizedSuffixes ==
    { <<".", "r", "s">>, <<".", "g", "l", "s", "l">>, <<".", "w", "g", "s", "l">>,
      <<".", "h">>, <<".", "c", "p", "p">>, <<".", "p", "y">>, <<".", "j", "s">>,
      <<".", "t", "s">> }

\* The files at any depth below `top` whose name ends with a recognized suffix.
SourcesBelow(top) ==
    {p \in DOMAIN fs0 :
        /\ Len(p) > Len(top)
        /\ SubSeq(p, 1, Len(top)) = top
        /\ fs0[p].kind = "file"
        /\ \E x \in RecognizedSuffixes : EndsWith(Name(p), x)}

\* The path of p relative to `top`, its segments kept.
KeyOf(p, top) == JoinStr(<<"/">>, SubSeq(p, Len(top) + 1, Len(p)))

Keys == {source_files[i].path : i \in 1..Len(source_files)}

\* C5: when the Collector has returned and every directory below the project
\* could be listed, the keys of its mapping are exactly the relative paths of
\* the files at any depth below the project whose name ends, in that case, with
\* one of the eight suffixes; each such file has one entry and its value is
\* the file's whole content; no key ends with .RS, .tsx or .txt.
C5_CollectorExact ==
    ("Formatting" \in Range(trace) /\ skipped = {}) =>
        LET top == walks[1]
        IN /\ Keys = {KeyOf(p, top) : p \in SourcesBelow(top)}
           /\ Len(source_files) = Cardinality(SourcesBelow(top))
           /\ \A p \in SourcesBelow(top) :
                 \E i \in 1..Len(source_files) :
                    /\ source_files[i].path = KeyOf(p, top)
                    /\ source_files[i].content = fs0[p].content
           /\ \A k \in Keys :
                 /\ ~EndsWith(k, <<".", "R", "S">>)
                 /\ ~EndsWith(k, <<".", "t", "s", "x">>)
                 /\ ~EndsWith(k, <<".", "t", "x", "t">>)

\* C5 witness: the mapping of 0_demo, which holds sources at three depths, two
\* of them with the same name, next to files named .RS, .tsx and .txt.
C5_Witness ==
    /\ pc = "Formatting"
    /\ skipped = {}
    /\ walks = << <<N_0demo>> >>
    /\ Len(source_files) = 4
    /\ \E i \in 1..4 : source_files[i].path = <<"s", "h", "/", "1", "d", "/", "x", ".", "p", "y">>
    /\ <<N_0demo, N_xtsx>> \in DOMAIN fs0

\* The block of one entry, line by line.
BlockOf(entry) ==
    Fence \o <<NL>>
    \o FileHeader \o entry.path \o <<NL>>
    \o <<NL>>
    \o entry.content \o <<NL>>
    \o Fence \o <<NL>>

\* Where the text after the blocks of `items` starts when they stand in text
\* from position `from` on, one after the other and each followed by a line
\* break; 0 when they do not.
RECURSIVE AfterBlocks(_, _, _)
AfterBlocks(text, from, items) ==
    IF items = <<>> THEN from
    ELSE LET block == BlockOf(Head(items))
             stop == from + Len(block)
         IN IF /\ stop <= Len(text)
               /\ SubSeq(text, from, stop - 1) = block
               /\ text[stop] = NL
            THEN AfterBlocks(text, stop + 1, Tail(items))
            ELSE 0

\* C6: the prompt starts with a line holding the triple quote and ends with the
\* triple quote; between them stand the blocks of the entries, one per entry,
\* in the mapping's order and nothing else but the line break after each; a
\* block is a fence line, the line ### File: <path>, an empty line, the content
\* as it was read and a fence line; for an empty mapping the prompt is the two
\* triple quotes with one line break between them.
C6_PromptLayout ==
    "Writing" \in Range(trace) =>
        LET closing == AfterBlocks(prompt, Len(TripleQuote) + 2, source_files)
        IN /\ SubSeq(prompt, 1, Len(TripleQuote) + 1) = TripleQuote \o <<NL>>
           /\ closing # 0
           /\ SubSeq(prompt, closing, Len(prompt)) = TripleQuote
           /\ source_files = <<>> => prompt = TripleQuote \o <<NL>> \o TripleQuote

\* C6 witness: a prompt of several entries, one of whose contents holds a fence
\* of its own.
C6_Witness ==
    /\ pc = "Writing"
    /\ Len(source_files) >= 2
    /\ \E i \in 1..Len(source_files) : Contains(source_files[i].content, Fence)

\* C7: a run that follows another one, with the same line typed and nothing
\* changed in between, lists the same projects and ends as the run before did,
\* with the same mapping, the same prompt and the same filesystem, output file
\* included.
C7_SecondRunIdentical ==
    prev.run >= 1 =>
        /\ "AwaitingSelection" \in Range(trace) => projects = prev.projects
        /\ pc \in Terminal =>
              /\ pc = prev.pc
              /\ projects = prev.projects
              /\ source_files = prev.source_files
              /\ prompt = prev.prompt
              /\ fs = prev.fs

\* C7 witness: a second run that wrote the prompt of a non-empty mapping over
\* the first run's output.
C7_Witness ==
    /\ run = 2
    /\ pc = "Done"
    /\ prev.pc = "Done"
    /\ source_files # <<>>
    /\ fs0 = prev.fs
    /\ written # <<>>

\* C8 as claimed: a failure while listing base_path, walking the project or
\* opening, reading or decoding a file ends the run before Formatting, with the
\* filesystem as the run found it and without the completion message; and a
\* run ends in Invalid only without any failure.
C8_AnyFailureEndsRun ==
    /\ hit \cap {"list", "walk", "open", "read"} # {} =>
          /\ pc \notin {"Formatting", "Writing", "Done"}
          /\ fs = fs0
          /\ written = <<>>
          /\ ~HasLine(MsgWritten)
    /\ pc = "Invalid" => hit = {}

\* What holds of the program instead: the same, for every failure but a
\* directory os.walk could not list.
C8_FailureButWalkEndsRun ==
    /\ hit \cap {"list", "open", "read"} # {} =>
          /\ pc \in {"Collecting", "Failed"}
          /\ (pc = "Collecting" => cpc = "close" /\ exc)
          /\ fs = fs0
          /\ written = <<>>
          /\ ~HasLine(MsgWritten)
    /\ pc = "Invalid" => hit = {}

\* A run that passed over an unlistable directory and still wrote its output.
C8_SkippedAndDone ==
    /\ pc = "Done"
    /\ skipped # {}
    /\ fs # fs0

\* C9: never more than one file is open; between two files of the collection
\* none is open; none is open when the run has ended, also when a read failed
\* with others read before it; none is open when the output file is about to
\* be opened, and during the write only the output file is.
C9_OneHandleAtATime ==
    /\ Cardinality(open) <= 1
    /\ (pc = "Collecting" /\ cpc \in {"select", "walk", "next"}) => open = {}
    /\ (pc = "Collecting" /\ cpc \in {"read", "close"}) => open = {Current}
    /\ pc \in Terminal \cup {"Formatting"} => open = {}
    /\ (pc = "Writing" /\ cpc = "open") => open = {}
    /\ (pc = "Writing" /\ cpc \in {"write", "close"}) => open = {output_file(selected)}

\* C9 witness: a read failed after other files had been read, and the run has
\* ended.
C9_Witness ==
    /\ pc = "Failed"
    /\ "read" \in hit
    /\ source_files # <<>>
    /\ open = {}

\* C10: every output file written so far, by this run or one before it, lies
\* in base_path/scripts and has a name that ends with _prompt.txt and with no
\* recognized suffix, as would the output of any listed project; scripts is
\* never listed and never walked; no key of the mapping names an output file;
\* and while the Collector runs the filesystem stays as the run found it.
C10_NeverCollectsOutput ==
    /\ \A o \in outputs :
          /\ Parent(o) = <<ScriptsDir>>
          /\ EndsWith(Name(o), PromptSuffix)
          /\ ~has_source_extension(Name(o))
    /\ \A i \in 1..Len(projects) :
          /\ ~has_source_extension(Name(output_file(projects[i])))
          /\ projects[i] # ScriptsDir
    /\ \A w \in 1..Len(walks) :
          /\ walks[w] # <<ScriptsDir>>
          /\ \A k \in Keys : \A o \in outputs :
                JoinPath(walks[w]) \o <<"/">> \o k # JoinPath(o)
    /\ pc = "Collecting" => (fs = fs0 /\ written = <<>>)

\* C10 witness: a second run has collected a non-empty mapping while the
\* output of the first lay in scripts.
C10_Witness ==
    /\ run = 2
    /\ pc = "Formatting"
    /\ source_files # <<>>
    /\ output_file(selected) \in outputs
    /\ output_file(selected) \in DOMAIN fs

====
